---- MODULE Spec2Model ----
(***************************************************************************)
(* A model of addic7ed/core.py: the action router of the subtitle add-on,  *)
(* its search flow (episode identity resolution, provider query, candidate *)
(* selection, presentation) and its download flow (staging directory).     *)
(*                                                                         *)
(* Text is a sequence of one-character strings.  The host API, the         *)
(* provider client (parser) and parse_filename (utils) are collaborators   *)
(* outside core.py: their answers are chosen by the environment.           *)
(* The module is read as Python 3 code: ConnectionError is the builtin,    *)
(* and formatting a bytes object gives its repr.                           *)
(***************************************************************************)
EXTENDS Integers, Sequences, FiniteSets, TLC

VARIABLES
    pc,             \* position of the router invocation
    run,            \* number of router invocations started so far
    params,         \* the plugin call parameters of the invocation
    now_played,     \* extract_episode_data: what get_now_played() returned
    episode_data,   \* search_subs: the EpisodeData resolved
    query,          \* search_subs: the query string
    results,        \* search_subs: the provider's answer
    log,            \* calls made to the collaborators in this invocation
    items,          \* entries added with xbmcplugin.addDirectoryItem
    notifications,  \* dialog.notification calls of this invocation
    endCount,       \* xbmcplugin.endOfDirectory calls of this invocation
    tempExists,     \* the staging directory exists
    tempFiles,      \* paths of the files in the staging directory
    chosen,         \* search_subs: i, the index dialog.select returned
    history         \* per finished invocation: what it was and how it ended

vars == <<pc, run, params, now_played, episode_data, query, results, log, items,
          notifications, endCount, tempExists, tempFiles, chosen, history>>

-----------------------------------------------------------------------------
(* Bounds of the model *)

\* router invocations in one behaviour
MaxRuns == 2
\* largest season / episode number the library reports (SpecResolve)
MaxLibNum == 101
\* longest filename handed to display_subs (SpecSync)
MaxNameLen == 5
\* longest version description of a subtitle item (SpecSync)
MaxVerLen == 2

-----------------------------------------------------------------------------
(* Text *)

\* str.lower, on the letters the model uses
LowerChar(c) ==
    CASE c = "A" -> "a"
      [] c = "B" -> "b"
      [] c = "L" -> "l"
      [] c = "S" -> "s"
      [] OTHER -> c

Lower(s) == [i \in 1..Len(s) |-> LowerChar(s[i])]

\* Python's `sub in s` for text
Contains(sub, s) ==
    \E i \in 0..(Len(s) - Len(sub)) : SubSeq(s, i + 1, i + Len(sub)) = sub

\* all texts over alphabet A of length at most n
RECURSIVE TextsUpTo(_, _)
TextsUpTo(A, n) ==
    IF n = 0 THEN {<<>>}
    ELSE LET shorter == TextsUpTo(A, n - 1)
         IN  shorter \cup {Append(s, c) : s \in shorter, c \in A}

Digit(d) ==
    CASE d = 0 -> "0" [] d = 1 -> "1" [] d = 2 -> "2" [] d = 3 -> "3"
      [] d = 4 -> "4" [] d = 5 -> "5" [] d = 6 -> "6" [] d = 7 -> "7"
      [] d = 8 -> "8" [] d = 9 -> "9"

Digits == {Digit(d) : d \in 0..9}

\* decimal text of a natural number
RECURSIVE StrNat(_)
StrNat(n) == IF n < 10 THEN <<Digit(n)>>
             ELSE Append(StrNat(n \div 10), Digit(n % 10))

\* str(n) of an integer
Str(n) == IF n < 0 THEN <<"-">> \o StrNat(-n) ELSE StrNat(n)

\* str.zfill(width): zeros go after a leading sign; never truncates
ZFill(s, width) ==
    IF Len(s) >= width THEN s
    ELSE LET pad == [i \in 1..(width - Len(s)) |-> "0"]
         IN  IF Len(s) > 0 /\ s[1] \in {"-", "+"}
             THEN <<s[1]>> \o pad \o Tail(s)
             ELSE pad \o s

\* index of the last occurrence of c in s, 0 if none
LastIndex(s, c) ==
    IF \E i \in 1..Len(s) : s[i] = c
    THEN CHOOSE i \in 1..Len(s) :
            s[i] = c /\ \A j \in (i + 1)..Len(s) : s[j] # c
    ELSE 0

\* os.path.basename
Basename(path) == SubSeq(path, LastIndex(path, "/") + 1, Len(path))

\* os.path.splitext(name)[1] of a base name: from the last dot, unless only
\* dots precede it
SplitExt(name) ==
    LET d == LastIndex(name, ".")
    IN  IF d = 0 \/ \A i \in 1..(d - 1) : name[i] = "."
        THEN <<>>
        ELSE SubSeq(name, d, Len(name))

\* os.path.splitext(name)[0]
SplitRoot(name) == SubSeq(name, 1, Len(name) - Len(SplitExt(name)))

-----------------------------------------------------------------------------
(* Module-level values of core.py *)

\* temp = os.path.join(profile, 'temp'); the profile path is one symbol
temp == <<"P", "/", "t", "e", "m", "p">>

VIDEOFILES == { <<".", "a", "v", "i">>, <<".", "m", "k", "v">>,
                <<".", "m", "p", "4">>, <<".", "t", "s">>,
                <<".", "m", "2", "t", "s">>, <<".", "m", "o", "v">> }

\* os.path.join(a, b)
PathJoin(a, b) ==
    IF Len(b) > 0 /\ b[1] = "/" THEN b
    ELSE IF Len(a) = 0 \/ a[Len(a)] = "/" THEN a \o b
    ELSE a \o <<"/">> \o b

\* the host's default display time of a notification, in milliseconds
\* (dialog.notification called without a time argument)
NotificationDefaultTime == 5000

\* dialog.notification(heading, message, icon, time); the texts are named by
\* their get_ui_string ids
Notification(heading, message, icon, time) ==
    [heading |-> heading, message |-> message, icon |-> icon, time |-> time]

\* lines 107, 203-205, 219-220: no time argument
ConnectionNotification ==
    Notification(32002, 32005, "error", NotificationDefaultTime)

\* mutant: the daily-limit handler shows the connectivity message
DailyLimitAsConnection == ConnectionNotification

\* lines 109-110
DailyLimitNotification == Notification(32002, 32003, "error", 3000)

\* lines 157-158
ParseNotification == Notification(32002, 32006, "error", 3000)

\* lines 124-125
SuccessNotification == Notification(32000, 32001, "icon", 3000)

-----------------------------------------------------------------------------
(* release_re = re.compile(r'-(.*?)(?:\[.*?\])?\.') *)

\* with group(1) ending at index e, the rest of the pattern,
\* (?:\[.*?\])?\. , matches right after it
ReleaseTailMatches(s, e) ==
    /\ e + 1 <= Len(s)
    /\ \/ s[e + 1] = "."
       \/ /\ s[e + 1] = "["
          /\ \E j \in (e + 2)..(Len(s) - 1) : s[j] = "]" /\ s[j + 1] = "."

\* the pattern matches with its '-' at index p
ReleaseMatchesAt(s, p) ==
    /\ s[p] = "-"
    /\ \E e \in p..Len(s) : ReleaseTailMatches(s, e)

\* release_re.search(s) is not None
ReleaseFound(s) == \E p \in 1..Len(s) : ReleaseMatchesAt(s, p)

\* search() returns the leftmost match
ReleaseStart(s) ==
    CHOOSE p \in 1..Len(s) :
        /\ ReleaseMatchesAt(s, p)
        /\ \A q \in 1..(p - 1) : ~ReleaseMatchesAt(s, q)

\* release_re.search(s).group(1): (.*?) is lazy, the shortest text that lets
\* the rest of the pattern match
ReleaseGroup(s) ==
    LET p == ReleaseStart(s)
        e == CHOOSE e \in p..Len(s) :
                /\ ReleaseTailMatches(s, e)
                /\ \A f \in p..(e - 1) : ~ReleaseTailMatches(s, f)
    IN  SubSeq(s, p + 1, e)

-----------------------------------------------------------------------------
(* display_subs *)

\* the condition under which display_subs sets the 'sync' property
IsSync(filename, version) ==
    /\ ReleaseFound(filename)
    /\ Contains(Lower(ReleaseGroup(filename)), Lower(version))

\* the ListItem and url display_subs adds for one item of subs_list
ListEntry(item, episode_url, filename) ==
    [ label       |-> item.language,
      label2      |-> item.version,
      hearing_imp |-> item.hi,
      sync        |-> IsSync(filename, item.version),
      url         |-> [ action   |-> "download",
                        link     |-> item.link,
                        ref      |-> episode_url,
                        filename |-> filename ] ]

\* the entries display_subs adds, in order
DisplaySubs(subs_list, episode_url, filename) ==
    [k \in 1..Len(subs_list) |-> ListEntry(subs_list[k], episode_url, filename)]

-----------------------------------------------------------------------------
(* download_subs: the staging path *)

\* subspath = os.path.join(temp, filename[:-3] + 'srt')
SubsPath(filename) ==
    PathJoin(temp, SubSeq(filename, 1, Len(filename) - 3) \o <<"s", "r", "t">>)

\* the ListItem download_subs adds for the staged file
StagedEntry(subspath) ==
    [ label       |-> subspath,
      label2      |-> <<>>,
      hearing_imp |-> FALSE,
      sync        |-> FALSE,
      url         |-> [ action   |-> "staged",
                        link     |-> subspath,
                        ref      |-> <<>>,
                        filename |-> <<>> ] ]

-----------------------------------------------------------------------------
(* extract_episode_data *)

EpisodeData(showname, season, episode, filename) ==
    [ showname |-> showname, season |-> season,
      episode  |-> episode,  filename |-> filename ]

\* no EpisodeData yet
NoData == EpisodeData(<<>>, <<>>, <<>>, <<>>)

\* mutant: the library number is not padded
LibraryNumberUnpadded(n) == Str(n)

\* str(now_played['season']).zfill(2)
LibraryNumber(n) == ZFill(Str(n), 2)

\* '{0}.{1}x{2}.foo'.format(showname.encode('utf-8'), season, episode):
\* the bytes object is formatted as its repr
PlaceholderName(showname, season, episode) ==
    <<"b", "'">> \o showname \o <<"'", ".">> \o season \o <<"x">>
        \o episode \o <<".", "f", "o", "o">>

\* one call of a collaborator, as the log keeps it
Call(name, arg, ret) == [call |-> name, arg |-> arg, ret |-> ret]

\* an answer of parse_filename: ParseError, or (showname, season, episode)
ParseFailed == [ok |-> FALSE, showname |-> <<>>, season |-> <<>>, episode |-> <<>>]

Parsed(showname, season, episode) ==
    [ok |-> TRUE, showname |-> showname, season |-> season, episode |-> episode]

ParseRet(p) == IF p.ok THEN "ok" ELSE "ParseError"

\* mutant: the label is parsed first, the filename second
ExtractEpisodeDataLabelFirst(played, use_filename, pf, pl) ==
    LET filename == Basename(played.file)
        label    == played.label
    IN  IF pl.ok
        THEN [ raised |-> FALSE,
               data   |-> EpisodeData(pl.showname, pl.season, pl.episode, label),
               calls  |-> <<Call("parse_filename", label, "ok")>>,
               notes  |-> <<>> ]
        ELSE [ raised |-> ~pf.ok,
               data   |-> IF pf.ok
                          THEN EpisodeData(pf.showname, pf.season, pf.episode,
                                           filename)
                          ELSE NoData,
               calls  |-> <<Call("parse_filename", label, "ParseError"),
                            Call("parse_filename", filename, ParseRet(pf))>>,
               notes  |-> IF pf.ok THEN <<>> ELSE <<ParseNotification>> ]

\* extract_episode_data(): pf and pl are what parse_filename answers for the
\* base filename and for the label.  raised: ParseError leaves the function;
\* calls, notes: the parse_filename calls and notifications it makes, in order
ExtractEpisodeData(played, use_filename, pf, pl) ==
    LET filename == Basename(played.file)
        label    == played.label
    IN  IF use_filename \/ played.showtitle = <<>>
        THEN IF pf.ok
             THEN [ raised |-> FALSE,
                    data   |-> EpisodeData(pf.showname, pf.season, pf.episode,
                                           filename),
                    calls  |-> <<Call("parse_filename", filename, "ok")>>,
                    notes  |-> <<>> ]
             ELSE [ raised |-> ~pl.ok,
                    data   |-> IF pl.ok
                               THEN EpisodeData(pl.showname, pl.season,
                                                pl.episode, label)
                               ELSE NoData,
                    calls  |-> <<Call("parse_filename", filename, "ParseError"),
                                 Call("parse_filename", label, ParseRet(pl))>>,
                    notes  |-> IF pl.ok THEN <<>> ELSE <<ParseNotification>> ]
        ELSE LET showname == played.showtitle
                 season   == LibraryNumber(played.season)
                 episode  == LibraryNumber(played.episode)
             IN  [ raised |-> FALSE,
                   data   |-> EpisodeData(
                                 showname, season, episode,
                                 IF Lower(SplitExt(filename)) \in VIDEOFILES
                                 THEN filename
                                 ELSE PlaceholderName(showname, season, episode)),
                   calls  |-> <<>>,
                   notes  |-> <<>> ]

-----------------------------------------------------------------------------
(* The collaborators' answers *)

\* SubtitleItem of the provider
SubtitleItem(language, version, hi, link) ==
    [language |-> language, version |-> version, hi |-> hi, link |-> link]

ItemLol == SubtitleItem("English", <<"L", "O", "L">>, FALSE, <<"d", "1">>)

ItemDim == SubtitleItem("French", <<"D", "I", "M">>, TRUE, <<"d", "2">>)

\* exceptions the provider client raises
ProviderError(name) ==
    [kind |-> name, subtitles |-> <<>>, episode_url |-> <<>>, candidates |-> <<>>]

\* a single episode: its subtitles and the URL of its page
Episode(subtitles, episode_url) ==
    [ kind |-> "episode", subtitles |-> subtitles,
      episode_url |-> episode_url, candidates |-> <<>> ]

\* several candidate episodes, each a title and a link
Candidates(list) ==
    [ kind |-> "list", subtitles |-> <<>>, episode_url |-> <<>>,
      candidates |-> list ]

NoResults == ProviderError("none")

Episodes ==
    { Episode(<<ItemLol>>, <<"u", "1">>),
      Episode(<<ItemLol, ItemDim>>, <<"u", "2">>) }

CandidateLists ==
    { Candidates(<<[title |-> "A", link |-> <<"e", "1">>]>>),
      Candidates(<<[title |-> "A", link |-> <<"e", "1">>],
                   [title |-> "B", link |-> <<"e", "2">>]>>) }

\* what parser.search_episode answers: an episode, a list of candidates,
\* a connection failure or no results
SearchEpisodeAnswers ==
    Episodes \cup CandidateLists
        \cup {ProviderError("ConnectionError"), ProviderError("SubsSearchError")}

\* what parser.get_episode answers
GetEpisodeAnswers ==
    Episodes
        \cup {ProviderError("ConnectionError"), ProviderError("SubsSearchError")}

\* how parser.download_subs ends
DownloadAnswers == {"ok", "ConnectionError", "DailyLimitError"}

\* parser.download_subs writes the file at the destination path only when it
\* succeeds
ProviderDownload(answer, files, path) ==
    IF answer = "ok" THEN files \cup {path} ELSE files

\* utils.normalize_showname, left uninterpreted
NormalizeShowname(showname) == <<"n", "(">> \o showname \o <<")">>

\* what parse_filename answers for a text
ParseAnswers ==
    { ParseFailed,
      Parsed(<<"S">>, <<"0", "1">>, <<"0", "2">>),
      Parsed(<<"S">>, <<"1", "0">>, <<"2", "4">>) }

\* get_now_played(): file, library show title (may be empty), library season
\* and episode, display label
NowPlayed(file, showtitle, season, episode, label) ==
    [ file |-> file, showtitle |-> showtitle, season |-> season,
      episode |-> episode, label |-> label ]

PlayedFiles ==
    { <<"/", "v", "/", "S", ".", "1", "x", "2", "-", "L", "O", "L", ".", "m", "k", "v">>,
      <<"/", "v", "/", "s", "t", "r", "e", "a", "m">> }

PlayedLabel == <<"S", " ", "1", "x", "2">>

\* get_now_played() not called yet
NotPlaying == NowPlayed(<<>>, <<>>, 0, 0, <<>>)

\* every season and episode number of the library, up to the bound
LibraryNowPlayed ==
    { NowPlayed(f, t, s, e, PlayedLabel) :
        f \in PlayedFiles, t \in {<<>>, <<"S">>},
        s \in 0..MaxLibNum, e \in 0..MaxLibNum }

\* what the host reports as now playing, in the router's flows
FlowNowPlayed ==
    { NowPlayed(f, t, 3, e, PlayedLabel) :
        f \in PlayedFiles, t \in {<<>>, <<"S">>}, e \in {7, 100} }

\* the filename parameter of a download call: one per recognized video
\* extension, and a placeholder name
DownloadNames ==
    { <<"a">> \o ext : ext \in VIDEOFILES } \cup { <<"a", ".", "f", "o", "o">> }

Param(action, searchstring, link, ref, filename) ==
    [ action |-> action, searchstring |-> searchstring, link |-> link,
      ref |-> ref, filename |-> filename ]

\* the plugin calls the host makes
Calls ==
    { Param("search", <<>>, <<>>, <<>>, <<>>) }
        \cup { Param("manualsearch", q, <<>>, <<>>, <<>>) :
                 q \in {<<>>, <<"S", " ", "1", "x", "2">>} }
        \cup { Param("download", <<>>, <<"d", "1">>, <<"u", "1">>, f) :
                 f \in DownloadNames }

\* a file an earlier session left in the staging directory
OldFile == PathJoin(temp, <<"o", "l", "d", ".", "s", "r", "t">>)

-----------------------------------------------------------------------------
(* The router and its flows *)

Init ==
    /\ pc = "idle"
    /\ run = 0
    /\ params = Param("none", <<>>, <<>>, <<>>, <<>>)
    /\ now_played = NotPlaying
    /\ episode_data = NoData
    /\ query = <<>>
    /\ results = NoResults
    /\ log = <<>>
    /\ items = <<>>
    /\ notifications = <<>>
    /\ endCount = 0
    /\ tempExists \in BOOLEAN
    /\ tempFiles \in (IF tempExists THEN {{}, {OldFile}} ELSE {{}})
    /\ chosen = -1
    /\ history = <<>>

\* router, lines 241-249: the host calls the plugin; dispatch on the action
Router ==
    /\ pc = "idle"
    /\ run < MaxRuns
    /\ \E p \in Calls :
        /\ params' = p
        /\ pc' = IF p.action \in {"search", "manualsearch"} THEN "search_subs"
                 ELSE IF p.action = "download" THEN "download_subs"
                 ELSE "end"
    /\ run' = run + 1
    /\ now_played' = NotPlaying
    /\ episode_data' = NoData
    /\ query' = <<>>
    /\ results' = NoResults
    /\ log' = <<>>
    /\ items' = <<>>
    /\ notifications' = <<>>
    /\ endCount' = 0
    /\ chosen' = -1
    /\ UNCHANGED <<tempExists, tempFiles, history>>

\* the query string search_subs builds
Query(action, data, searchstring) ==
    IF action = "search"
    THEN NormalizeShowname(data.showname) \o <<" ">> \o data.season
             \o <<"x">> \o data.episode
    ELSE searchstring

\* search_subs, lines 178-198: resolve the episode, build the query; the host
\* reports one of `playing`
SearchSubsOf(playing) ==
    /\ pc = "search_subs"
    /\ \E np \in playing, use_filename \in BOOLEAN,
          pf \in ParseAnswers, pl \in ParseAnswers :
        LET r == ExtractEpisodeData(np, use_filename, pf, pl)
            q == Query(params.action, r.data, params.searchstring)
        IN  /\ now_played' = np
            /\ log' = log \o r.calls
            /\ notifications' = notifications \o r.notes
            /\ episode_data' = r.data
            /\ query' = IF r.raised THEN <<>> ELSE q
            /\ pc' = IF r.raised \/ q = <<>> THEN "end" ELSE "search_episode"
    /\ UNCHANGED <<run, params, results, items, endCount, tempExists,
                   tempFiles, chosen, history>>

SearchSubs == SearchSubsOf(FlowNowPlayed)

\* mutant: the connection failure is not caught
CaughtNoConnection == {"SubsSearchError"}

\* the except clauses of search_subs, lines 201-207 and 217-224
Caught == {"ConnectionError", "SubsSearchError"}

\* mutant: a connection failure is handled without telling the user
HandlerNotesSilent(kind) == <<>>

\* the notifications a handler of search_subs or download_subs shows
HandlerNotes(kind) ==
    IF kind = "ConnectionError" THEN <<ConnectionNotification>>
    ELSE IF kind = "DailyLimitError" THEN <<DailyLimitNotification>>
    ELSE <<>>

\* where search_subs goes on a provider answer: an uncaught exception leaves
\* the router
AfterAnswer(answer, onEpisode, onList) ==
    IF answer.kind = "episode" THEN onEpisode
    ELSE IF answer.kind = "list" THEN onList
    ELSE IF answer.kind \in Caught THEN "end"
    ELSE "raised"

\* search_subs, lines 199-209: parser.search_episode and its handlers
SearchEpisode ==
    /\ pc = "search_episode"
    /\ \E answer \in SearchEpisodeAnswers :
        /\ log' = Append(log, Call("search_episode", query, answer.kind))
        /\ results' = IF answer.kind \in {"episode", "list"} THEN answer
                      ELSE results
        /\ notifications' = IF answer.kind \in Caught
                            THEN notifications \o HandlerNotes(answer.kind)
                            ELSE notifications
        /\ pc' = AfterAnswer(answer, "display_subs", "select")
    /\ UNCHANGED <<run, params, now_played, episode_data, query, items, endCount,
                   tempExists, tempFiles, chosen, history>>

\* [item.title for item in results]
Titles(list) == [k \in 1..Len(list) |-> list[k].title]

\* mutant: a cancelled selection is taken as an index
SelectedAny(index) == TRUE

\* the test of line 214
Selected(index) == index >= 0

\* search_subs, lines 210-214 and 225-227: dialog.select over the candidates'
\* titles; -1 when the user cancels
Select ==
    /\ pc = "select"
    /\ \E index \in -1..(Len(results.candidates) - 1) :
        /\ chosen' = index
        /\ log' = Append(log, Call("select", Titles(results.candidates),
                                   IF index >= 0 THEN "chosen" ELSE "cancelled"))
        /\ pc' = IF Selected(index) THEN "get_episode" ELSE "end"
    /\ UNCHANGED <<run, params, now_played, episode_data, query, results, items,
                   notifications, endCount, tempExists, tempFiles, history>>

\* mutant: the first candidate is taken whatever was selected
ListAtFirst(list, index) == list[1]

\* results[i] of a Python list: a negative index counts from the end
ListAt(list, index) ==
    IF index >= 0 THEN list[index + 1] ELSE list[Len(list) + index + 1]

\* search_subs, lines 215-224: parser.get_episode for the chosen candidate
GetEpisode ==
    /\ pc = "get_episode"
    /\ \E answer \in GetEpisodeAnswers :
        /\ log' = Append(log, Call("get_episode",
                                   ListAt(results.candidates, chosen).link,
                                   answer.kind))
        /\ results' = IF answer.kind = "episode" THEN answer ELSE results
        /\ notifications' = IF answer.kind \in Caught
                            THEN notifications \o HandlerNotes(answer.kind)
                            ELSE notifications
        /\ pc' = AfterAnswer(answer, "display_subs", "raised")
    /\ UNCHANGED <<run, params, now_played, episode_data, query, items, endCount,
                   tempExists, tempFiles, chosen, history>>

\* search_subs, lines 228-230: display_subs
Display ==
    /\ pc = "display_subs"
    /\ log' = Append(log, Call("display_subs", episode_data.filename, "ok"))
    /\ items' = items \o DisplaySubs(results.subtitles, results.episode_url,
                                     episode_data.filename)
    /\ pc' = "end"
    /\ UNCHANGED <<run, params, now_played, episode_data, query, results, notifications,
                   endCount, tempExists, tempFiles, chosen, history>>

\* mutant: the directory is created without removing what is there
RecreateTempKeep(exists, files) == [exists |-> TRUE, files |-> files]

\* download_subs, lines 97-99: remove the staging directory if it exists,
\* then create it
RecreateTemp(exists, files) ==
    [exists |-> TRUE, files |-> IF exists THEN {} ELSE files]

\* the except clauses of download_subs, lines 105-111
DownloadCaught == {"ConnectionError", "DailyLimitError"}

\* download_subs
DownloadSubs ==
    /\ pc = "download_subs"
    /\ \E answer \in DownloadAnswers :
        LET fresh    == RecreateTemp(tempExists, tempFiles)
            subspath == SubsPath(params.filename)
        IN  /\ tempExists' = fresh.exists
            /\ tempFiles' = ProviderDownload(answer, fresh.files, subspath)
            /\ log' = Append(log, Call("download_subs", subspath, answer))
            /\ items' = IF answer = "ok"
                        THEN Append(items, StagedEntry(subspath))
                        ELSE items
            /\ notifications' =
                  IF answer = "ok" THEN Append(notifications, SuccessNotification)
                  ELSE IF answer \in DownloadCaught
                       THEN notifications \o HandlerNotes(answer)
                       ELSE notifications
            /\ pc' = IF answer = "ok" \/ answer \in DownloadCaught THEN "end"
                     ELSE "raised"
    /\ UNCHANGED <<run, params, now_played, episode_data, query, results, endCount, chosen,
                   history>>

\* what history keeps of a finished invocation
Summary ==
    [ action |-> params.action,
      staged |-> IF \E k \in 1..Len(log) :
                       log[k].call = "download_subs" /\ log[k].ret = "ok"
                 THEN SubsPath(params.filename) ELSE <<>>,
      files  |-> tempFiles ]

\* router, line 250: xbmcplugin.endOfDirectory(handle); the router returns
EndOfDirectory ==
    /\ pc = "end"
    /\ endCount' = endCount + 1
    /\ log' = Append(log, Call("endOfDirectory", <<>>, "ok"))
    /\ history' = Append(history, Summary)
    /\ pc' = "idle"
    /\ UNCHANGED <<run, params, now_played, episode_data, query, results, items,
                   notifications, tempExists, tempFiles, chosen>>

Next ==
    \/ Router
    \/ SearchSubs
    \/ SearchEpisode
    \/ Select
    \/ GetEpisode
    \/ Display
    \/ DownloadSubs
    \/ EndOfDirectory

Spec == Init /\ [][Next]_vars

-----------------------------------------------------------------------------
(* extract_episode_data over every library number: SpecResolve *)

InitResolve ==
    /\ pc = "search_subs"
    /\ run = 1
    /\ params = Param("search", <<>>, <<>>, <<>>, <<>>)
    /\ now_played = NotPlaying
    /\ episode_data = NoData
    /\ query = <<>>
    /\ results = NoResults
    /\ log = <<>>
    /\ items = <<>>
    /\ notifications = <<>>
    /\ endCount = 0
    /\ tempExists = FALSE
    /\ tempFiles = {}
    /\ chosen = -1
    /\ history = <<>>

Resolve == SearchSubsOf(LibraryNowPlayed)

SpecResolve == InitResolve /\ [][Resolve]_vars

-----------------------------------------------------------------------------
(* display_subs over every short filename and version: SpecSync *)

NameChars == {"-", ".", "[", "]", "a", "B"}

VersionChars == {"A", "b"}

InitSync ==
    /\ pc = "display_subs"
    /\ run = 1
    /\ params = Param("search", <<>>, <<>>, <<>>, <<>>)
    /\ now_played = NotPlaying
    /\ \E name \in TextsUpTo(NameChars, MaxNameLen) :
        episode_data = EpisodeData(<<"S">>, <<"0", "1">>, <<"0", "2">>, name)
    /\ query = <<"q">>
    /\ \E version \in TextsUpTo(VersionChars, MaxVerLen), hi \in BOOLEAN :
        results = Episode(<<SubtitleItem("English", version, hi, <<"d", "1">>)>>,
                          <<"u", "1">>)
    /\ log = <<>>
    /\ items = <<>>
    /\ notifications = <<>>
    /\ endCount = 0
    /\ tempExists = FALSE
    /\ tempFiles = {}
    /\ chosen = -1
    /\ history = <<>>

SpecSync == InitSync /\ [][Display]_vars

-----------------------------------------------------------------------------
(* Properties *)

\* the indices of the calls of a collaborator in the log
CallsOf(name) == {k \in 1..Len(log) : log[k].call = name}

\* the indices of the provider calls that ended with the exception `kind`
ProviderFailures(kind) ==
    {k \in 1..Len(log) :
        /\ log[k].call \in {"search_episode", "get_episode", "download_subs"}
        /\ log[k].ret = kind}

\* the router has been called and has returned
Returned == pc = "idle" /\ run > 0

\* the flow the router dispatched to is over
FlowOver == pc \in {"end", "idle"} /\ run > 0

C2_ConnectionFailure ==
    ProviderFailures("ConnectionError") # {} =>
        /\ FlowOver
        /\ notifications = <<ConnectionNotification>>
        /\ items = <<>>

\* C2 witness: get_episode failed to connect after a candidate was selected
C2_Witness ==
    /\ Returned
    /\ \E k \in ProviderFailures("ConnectionError") : log[k].call = "get_episode"
    /\ CallsOf("select") # {}

\* the download ended on the provider's daily limit
DailyLimitHit == ProviderFailures("DailyLimitError") # {}

\* C3 as stated: on the daily limit the only notification is the daily-limit
\* one, whose message differs from the connectivity one and whose display
\* time is longer; no file is staged and no entry is emitted.
C3_AsStated ==
    DailyLimitHit =>
        /\ Len(notifications) = 1
        /\ notifications[1].message # ConnectionNotification.message
        /\ notifications[1].time > ConnectionNotification.time
        /\ tempFiles = {}
        /\ items = <<>>

\* C3 amended: on the daily limit the only notification is the daily-limit
\* one, whose message differs from the connectivity one and whose display
\* time, 3000 ms, is given explicitly and is shorter than the host default
\* the connectivity notification is shown for; the staging directory exists
\* and is empty, and no entry is emitted.
C3_DailyLimit ==
    DailyLimitHit =>
        /\ FlowOver
        /\ Len(notifications) = 1
        /\ notifications[1].message = 32003
        /\ notifications[1].message # ConnectionNotification.message
        /\ notifications[1].time = 3000
        /\ notifications[1].time < ConnectionNotification.time
        /\ tempExists
        /\ tempFiles = {}
        /\ items = <<>>

\* C3 witness: a download that hit the daily limit after an earlier download
\* had staged a file
C3_Witness ==
    /\ Returned
    /\ DailyLimitHit
    /\ Len(history) = 2
    /\ history[1].staged # <<>>

\* C4: the presenter is called after a single-episode answer without any
\* selection dialog; after a list answer it is called only once the dialog
\* has returned a valid index and get_episode has then answered with an
\* episode.  A single-episode answer always leads to the presenter.
C4_SelectionBeforePresenting ==
    /\ pc = "get_episode" => chosen \in 0..(Len(results.candidates) - 1)
    /\ \A s \in CallsOf("search_episode") :
        /\ log[s].ret = "episode" =>
              /\ CallsOf("select") = {}
              /\ pc \in {"display_subs"} \/ CallsOf("display_subs") # {}
        /\ log[s].ret = "list" =>
              \A d \in CallsOf("display_subs") :
                  \E a \in CallsOf("select"), g \in CallsOf("get_episode") :
                      /\ s < a /\ a < g /\ g < d
                      /\ log[a].ret = "chosen"
                      /\ chosen \in 0..(Len(log[a].arg) - 1)
                      /\ log[g].ret = "episode"

\* C4 witness: entries presented after the second candidate was selected
C4_Witness ==
    /\ Returned
    /\ CallsOf("select") # {}
    /\ chosen = 1
    /\ CallsOf("display_subs") # {}
    /\ items # <<>>

\* C5: after a successful download the staging directory exists and holds
\* exactly one file, the one this request staged, whatever the directory
\* held before; the same is true of every earlier invocation.
C5_SingleStagedFile ==
    /\ ProviderFailures("ok") # {} =>
          /\ tempExists
          /\ tempFiles = {SubsPath(params.filename)}
          /\ Cardinality(tempFiles) = 1
    /\ \A h \in 1..Len(history) :
          history[h].staged # <<>> => history[h].files = {history[h].staged}

\* C5 witness: two successful downloads in a row, of different files
C5_Witness ==
    /\ Returned
    /\ Len(history) = 2
    /\ history[1].staged # <<>>
    /\ history[2].staged # <<>>
    /\ history[1].staged # history[2].staged
    /\ tempFiles = {history[2].staged}

\* the subtitle extension
SubtitleExt == <<".", "s", "r", "t">>

\* C6 as stated: the staging path is the staging directory joined with the
\* filename whose extension is replaced by the subtitle extension.
C6_ExtensionReplaced ==
    \A k \in CallsOf("download_subs") :
        log[k].arg = PathJoin(temp, SplitRoot(params.filename) \o SubtitleExt)

\* the release tag as the specification describes it: the text between the
\* last '-' and the first '.' or '[' after it
HasDescribedTag(name) ==
    /\ LastIndex(name, "-") > 0
    /\ \E j \in (LastIndex(name, "-") + 1)..Len(name) : name[j] \in {".", "["}

DescribedTag(name) ==
    LET d == LastIndex(name, "-")
        j == CHOOSE j \in (d + 1)..Len(name) :
                /\ name[j] \in {".", "["}
                /\ \A m \in (d + 1)..(j - 1) : name[m] \notin {".", "["}
    IN  SubSeq(name, d + 1, j - 1)

\* C7 as stated, for the filenames without brackets whose described tag is
\* not empty: an entry is marked sync exactly when the tag occurs, whatever
\* the case, in the item's version description.
C7_SyncIffDescribedTag ==
    \A k \in 1..Len(items) :
        LET name == items[k].url.filename
        IN  (/\ HasDescribedTag(name)
             /\ DescribedTag(name) # <<>>
             /\ \A m \in 1..Len(name) : name[m] \notin {"[", "]"})
            => (items[k].sync <=>
                    Contains(Lower(DescribedTag(name)), Lower(items[k].label2)))

\* the number a text of decimal digits denotes
RECURSIVE NatValue(_)
NatValue(t) ==
    IF Len(t) = 0 THEN 0
    ELSE 10 * NatValue(SubSeq(t, 1, Len(t) - 1))
            + (CHOOSE d \in 0..9 : Digit(d) = t[Len(t)])

IsDigits(t) == \A k \in 1..Len(t) : t[k] \in Digits

\* search_subs has an EpisodeData
Resolved == pc = "search_episode"

\* the EpisodeData comes from the library metadata
FromLibrary == Resolved /\ CallsOf("parse_filename") = {}

\* C8 as stated: season and episode of every EpisodeData are 2-digit texts.
C8_AlwaysTwoDigits ==
    Resolved =>
        /\ Len(episode_data.season) = 2 /\ IsDigits(episode_data.season)
        /\ Len(episode_data.episode) = 2 /\ IsDigits(episode_data.episode)

\* t is the decimal text of n padded with zeros to at least two digits
PaddedDecimal(t, n) ==
    /\ IsDigits(t)
    /\ NatValue(t) = n
    /\ Len(t) >= 2
    /\ Len(t) = 2 <=> n <= 99
    /\ Len(t) > 2 => t[1] # "0"

\* C8 amended: season and episode of an EpisodeData from library metadata
\* are the decimal texts of the library numbers padded with zeros to at least
\* two digits: two digits up to 99, all the digits of the number from 100 on;
\* from filename or label parsing they are the texts parse_filename answered.
C8_PaddedToTwoDigits ==
    /\ FromLibrary =>
          /\ PaddedDecimal(episode_data.season, now_played.season)
          /\ PaddedDecimal(episode_data.episode, now_played.episode)
    /\ Resolved /\ ~FromLibrary =>
          \E p \in ParseAnswers :
              /\ p.ok
              /\ episode_data.showname = p.showname
              /\ episode_data.season = p.season
              /\ episode_data.episode = p.episode

\* C8 witness: a library episode numbered 100 in season 3
C8_Witness ==
    /\ FromLibrary
    /\ now_played.season = 3
    /\ now_played.episode = 100
    /\ episode_data.season = <<"0", "3">>
    /\ episode_data.episode = <<"1", "0", "0">>

\* the link of the candidate the provider offers under a title
LinkOfTitle(title) ==
    CHOOSE l \in {<<"e", "1">>, <<"e", "2">>} :
        \E c \in CandidateLists : \E k \in 1..Len(c.candidates) :
            c.candidates[k].title = title /\ c.candidates[k].link = l

\* nothing was presented
NothingPresented == items = <<>> /\ CallsOf("display_subs") = {}

\* C9: when the selection is cancelled the flow is over, get_episode was not
\* called, nothing was notified and nothing presented.  When a candidate is
\* selected, get_episode is called exactly once, next, with the link of that
\* candidate; if it fails to connect there is the one connectivity
\* notification, if it finds nothing there is none, and in both cases
\* nothing is presented.
C9_SelectionOutcome ==
    \A a \in CallsOf("select") :
        /\ log[a].ret = "cancelled" =>
              /\ FlowOver
              /\ CallsOf("get_episode") = {}
              /\ notifications = <<>>
              /\ NothingPresented
        /\ log[a].ret = "chosen" =>
              IF pc = "get_episode"
              THEN CallsOf("get_episode") = {}
              ELSE /\ CallsOf("get_episode") = {a + 1}
                   /\ log[a + 1].arg = LinkOfTitle(log[a].arg[chosen + 1])
                   /\ log[a + 1].ret = "ConnectionError" =>
                         /\ FlowOver
                         /\ notifications = <<ConnectionNotification>>
                         /\ NothingPresented
                   /\ log[a + 1].ret = "SubsSearchError" =>
                         /\ FlowOver
                         /\ notifications = <<>>
                         /\ NothingPresented

\* C9 witness: the second candidate was selected and get_episode found
\* nothing
C9_Witness ==
    /\ Returned
    /\ chosen = 1
    /\ \E g \in CallsOf("get_episode") :
          log[g].ret = "SubsSearchError" /\ log[g].arg = <<"e", "2">>

\* the parse_filename calls that raised ParseError
ParseErrors == {k \in CallsOf("parse_filename") : log[k].ret = "ParseError"}

\* C10: parse_filename is first called on the base filename, and on the
\* label only right after it failed on the base filename.  When both fail
\* the flow is over with the one identity-resolution notification, no
\* provider call and nothing presented, whatever the action and the typed
\* query.
C10_ParseFallback ==
    /\ CallsOf("parse_filename") # {} =>
          /\ 1 \in CallsOf("parse_filename")
          /\ log[1].arg = Basename(now_played.file)
    /\ \A k \in CallsOf("parse_filename") :
          log[k].arg = now_played.label =>
              /\ k = 2
              /\ log[1] = Call("parse_filename", Basename(now_played.file),
                               "ParseError")
    /\ Cardinality(ParseErrors) = 2 =>
          /\ FlowOver
          /\ notifications = <<ParseNotification>>
          /\ CallsOf("search_episode") = {}
          /\ CallsOf("get_episode") = {}
          /\ NothingPresented

\* C10 witness: a manual search with a typed query, both parses failed
C10_Witness ==
    /\ Returned
    /\ params.action = "manualsearch"
    /\ params.searchstring # <<>>
    /\ Cardinality(ParseErrors) = 2
    /\ query = <<>>

====
